---- MODULE Spec2Model ----
(***************************************************************************)
(* A model of the Neopixel driver class of src/neopixel.py: the packed     *)
(* pixel array with its two framing words, the memoryview handed to the    *)
(* PIO state machine, the brightness value, and every method that reads    *)
(* or writes them.                                                         *)
(*                                                                         *)
(* Python values are modelled as follows.                                  *)
(*   - an array.array("I") or a tuple is a sequence; Python index k is     *)
(*     TLA+ index k+1;                                                     *)
(*   - an optional argument is a sequence: <<>> is None, <<v>> is v;       *)
(*   - a mode string is the sequence of its letters;                       *)
(*   - a raised exception is the field err of the record of the last call. *)
(***************************************************************************)
EXTENDS Integers, Sequences, FiniteSets, TLC

VARIABLES
    mode,             \* self.mode
    W_in_mode,        \* self.W_in_mode
    shift,            \* self.shift, the tuple (sh_R, sh_G, sh_B, sh_W)
    num_leds,         \* self.num_leds
    offset,           \* self.offset
    brightnessvalue,  \* self.brightnessvalue
    pixels,           \* the contents of the array object self.pixels names
    mvbuf,            \* the contents of the array object self.mv views
    shared,           \* TRUE while self.pixels is the object self.mv views
    last,             \* the last call: its name, arguments, exception, result,
                      \* what it put to the state machine, self.pixels before it
    prev,             \* the call before the last
    budget            \* number of calls the client still makes

cfgvars == <<mode, W_in_mode, shift, num_leds, offset>>
vars == <<mode, W_in_mode, shift, num_leds, offset, brightnessvalue, pixels,
          mvbuf, shared, last, prev, budget>>

---------------------------------------------------------------------------
(* Bounds of the model.                                                    *)

MaxLeds == 3
MaxOps == 3

---------------------------------------------------------------------------
(* Python and integer helpers.                                             *)

None == <<>>
Some(v) == <<v>>
IsNone(o) == Len(o) = 0
Val(o) == o[1]

Min(a, b) == IF a < b THEN a ELSE b
Max(a, b) == IF a > b THEN a ELSE b

\* 2^k for k in 0..7 and 256^k for k in 0..3
Pow2(k) == <<1, 2, 4, 8, 16, 32, 64, 128>>[k + 1]
Pow256(k) == <<1, 256, 65536, 16777216>>[k + 1]

\* a ^ b of Python on non-negative integers, bit by bit
RECURSIVE BitXor(_, _)
BitXor(a, b) ==
    IF a = 0 THEN b
    ELSE IF b = 0 THEN a
    ELSE (IF (a % 2) # (b % 2) THEN 1 ELSE 0) + 2 * BitXor(a \div 2, b \div 2)

\* a | b of Python on non-negative integers, bit by bit
RECURSIVE BitOr(_, _)
BitOr(a, b) ==
    IF a = 0 THEN b
    ELSE IF b = 0 THEN a
    ELSE (IF (a % 2) = 1 \/ (b % 2) = 1 THEN 1 ELSE 0) + 2 * BitOr(a \div 2, b \div 2)

(* An unsigned 32-bit word, an item of array.array("I"), is the sequence of *)
(* its four bytes, least significant first, so that a word with its top bit *)
(* set stays within the integers the model checker computes with.           *)
Word(v) == << v % 256, (v \div 256) % 256, (v \div 65536) % 256, (v \div 16777216) % 256 >>

\* a | b on words
WordOr(a, b) == << BitOr(a[1], b[1]), BitOr(a[2], b[2]), BitOr(a[3], b[3]), BitOr(a[4], b[4]) >>

\* v << sh as a word, for an integer v >= 0 whose shifted value fits 32 bits
ShiftLeft(v, sh) ==
    LET q == sh \div 8
        x == v * Pow2(sh % 8)
        byte(k) == IF k < q THEN 0 ELSE (x \div Pow256(k - q)) % 256
    IN  << byte(0), byte(1), byte(2), byte(3) >>

\* (w >> sh) & 255 on a word
ShiftRightByte(w, sh) ==
    LET q  == sh \div 8
        lo == IF q + 1 <= 4 THEN w[q + 1] ELSE 0
        hi == IF q + 2 <= 4 THEN w[q + 2] ELSE 0
    IN  ((lo + 256 * hi) \div Pow2(sh % 8)) % 256

\* a scaling that truncates where the code rounds
PyRoundDown(num, den) == num \div den

\* round(num / den) of Python 3 for den > 0: to nearest, ties to even
PyRound(num, den) ==
    LET q == num \div den
        r == num % den
    IN  IF 2 * r < den THEN q
        ELSE IF 2 * r > den THEN q + 1
        ELSE IF q % 2 = 0 THEN q ELSE q + 1

\* int(num / den) of Python 3 for num >= 0, den > 0: truncation
PyInt(num, den) == num \div den

\* s.index(ch) of a string that holds ch
RECURSIVE IndexFrom(_, _, _)
IndexFrom(s, ch, k) == IF s[k + 1] = ch THEN k ELSE IndexFrom(s, ch, k + 1)
StrIndex(s, ch) == IndexFrom(s, ch, 0)

\* ch in s
StrHas(s, ch) == \E k \in 1..Len(s) : s[k] = ch

\* the bound a of a slice a: or :a of a sequence of length n, as Python clamps it
ClampBound(a, n) == IF a < 0 THEN Max(a + n, 0) ELSE Min(a, n)

\* p[a:] and p[:a]
SliceFrom(p, a) == SubSeq(p, ClampBound(a, Len(p)) + 1, Len(p))
SliceTo(p, a) == SubSeq(p, 1, ClampBound(a, Len(p)))

\* p[j] of an array: a negative j counts from the end
ItemIndex(p, j) == IF j < 0 THEN j + Len(p) ELSE j
ItemOK(p, j) == ItemIndex(p, j) >= 0 /\ ItemIndex(p, j) < Len(p)
GetItem(p, j) == p[ItemIndex(p, j) + 1]
SetItem(p, j, v) == [p EXCEPT ![ItemIndex(p, j) + 1] = v]

\* list(range(start, stop, step)) for step > 0
RECURSIVE PyRange(_, _, _)
PyRange(start, stop, step) ==
    IF start >= stop THEN <<>> ELSE <<start>> \o PyRange(start + step, stop, step)

\* slice(start, stop, step).indices(n) for a positive or absent step
SliceIndices(slc, n) ==
    LET step  == IF IsNone(slc[4]) THEN 1 ELSE Val(slc[4])
        start == IF IsNone(slc[2]) THEN 0 ELSE ClampBound(Val(slc[2]), n)
        stop  == IF IsNone(slc[3]) THEN n ELSE ClampBound(Val(slc[3]), n)
    IN  <<start, stop, step>>

\* slice_maker[a:b:c]
slice_maker(a, b, c) == <<"slice", a, b, c>>
IntIndex(i) == <<"int", i>>

Zeros(n) == [k \in 1..n |-> Word(0)]

---------------------------------------------------------------------------
(* Construction.                                                           *)

ResetDelay == 3840

\* a layout that forgets the "- 1" of a three-letter mode
ShiftOfNoMinusOne(m) ==
    << BitXor(StrIndex(m, "R"), 3) * 8, BitXor(StrIndex(m, "G"), 3) * 8,
       BitXor(StrIndex(m, "B"), 3) * 8,
       IF StrHas(m, "W") THEN BitXor(StrIndex(m, "W"), 3) * 8 ELSE 0 >>

\* self.shift as __init__ computes it from the mode string
ShiftOf(m) ==
    IF StrHas(m, "W")
    THEN << BitXor(StrIndex(m, "R"), 3) * 8, BitXor(StrIndex(m, "G"), 3) * 8,
            BitXor(StrIndex(m, "B"), 3) * 8, BitXor(StrIndex(m, "W"), 3) * 8 >>
    ELSE << (BitXor(StrIndex(m, "R"), 3) - 1) * 8, (BitXor(StrIndex(m, "G"), 3) - 1) * 8,
            (BitXor(StrIndex(m, "B"), 3) - 1) * 8, 0 >>

\* bpp of __init__
Bpp(m) == IF StrHas(m, "W") THEN 4 ELSE 3

\* the single array __init__ builds: bit count, one word per led, delay
InitialPixels(m, n) ==
    LET byte_count == Bpp(m) * n
        bit_count  == byte_count * 8
    IN  <<Word(bit_count - 1)>> \o Zeros(n) \o <<Word(ResetDelay)>>

\* the record of a call: op(a) raised err or returned ret, handed put to the
\* state machine, and found self.pixels as before
Call(op, a, err, ret, put, before) ==
    [op |-> op, a |-> a, err |-> err, ret |-> ret, put |-> put, before |-> before]

NoCall == Call("none", <<>>, "none", <<>>, <<>>, <<>>)

\* Neopixel(n, state_machine, pin, m), followed by calls calls of the client
Construct(m, n, calls) ==
    /\ mode = m
    /\ W_in_mode = StrHas(m, "W")
    /\ shift = ShiftOf(m)
    /\ num_leds = n
    /\ brightnessvalue = 255
    /\ offset = 1
    /\ pixels = InitialPixels(m, n)
    /\ mvbuf = InitialPixels(m, n)
    /\ shared = TRUE
    /\ last = Call("__init__", <<n, m>>, "none", <<>>, <<>>, <<>>)
    /\ prev = NoCall
    /\ budget = calls

---------------------------------------------------------------------------
(* The methods, as functions of the state.                                 *)

Done(px) == [pixels |-> px, err |-> "none"]
Raised(px) == [pixels |-> px, err |-> "IndexError"]

\* pix_value of set_pixel: each component scaled by how_bright / 255.0 and
\* rounded, then shifted into place and OR-ed
PixValue(rgb_w, how_bright) ==
    LET hb    == IF IsNone(how_bright) THEN brightnessvalue ELSE Val(how_bright)
        red   == PyRound(rgb_w[1] * hb, 255)
        green == PyRound(rgb_w[2] * hb, 255)
        blue  == PyRound(rgb_w[3] * hb, 255)
        white == IF Len(rgb_w) = 4 /\ W_in_mode THEN PyRound(rgb_w[4] * hb, 255) ELSE 0
    IN  WordOr(WordOr(WordOr(ShiftLeft(white, shift[4]), ShiftLeft(blue, shift[3])),
                      ShiftLeft(red, shift[1])),
               ShiftLeft(green, shift[2]))

\* for i in <is>: self.pixels[i + offset] = v, up to the first IndexError
RECURSIVE StoreAll(_, _, _)
StoreAll(px, is, v) ==
    IF is = <<>> THEN Done(px)
    ELSE IF ~ItemOK(px, Head(is) + offset) THEN Raised(px)
    ELSE StoreAll(SetItem(px, Head(is) + offset, v), Tail(is), v)

\* set_pixel on the array px: the array afterwards and the exception raised
SetPixelOn(px, pixel_num, rgb_w, how_bright) ==
    LET pix_value == PixValue(rgb_w, how_bright)
    IN  IF pixel_num[1] = "slice"
        THEN LET r == SliceIndices(pixel_num, num_leds)
             IN  StoreAll(px, PyRange(r[1], r[2], r[3]), pix_value)
        ELSE StoreAll(px, <<pixel_num[2]>>, pix_value)

\* the colour set_pixel_line_gradient computes for offset i of a span
GradientColour(left_rgb_w, right_rgb_w, i, span, with_W) ==
    LET mix(k) == PyRound((right_rgb_w[k] - left_rgb_w[k]) * i + left_rgb_w[k] * span, span)
    IN  IF with_W THEN <<mix(1), mix(2), mix(3), mix(4)>>
        ELSE <<mix(1), mix(2), mix(3)>>

\* the loop of set_pixel_line_gradient from offset i on
RECURSIVE GradientLoop(_, _, _, _, _, _, _, _)
GradientLoop(px, i, left_pixel, span, left_rgb_w, right_rgb_w, with_W, how_bright) ==
    IF i > span THEN Done(px)
    ELSE LET r == SetPixelOn(px, IntIndex(left_pixel + i),
                             GradientColour(left_rgb_w, right_rgb_w, i, span, with_W),
                             how_bright)
         IN  IF r.err # "none" THEN r
             ELSE GradientLoop(r.pixels, i + 1, left_pixel, span, left_rgb_w,
                               right_rgb_w, with_W, how_bright)

\* set_pixel_line_gradient on the array px
GradientOn(px, pixel1, pixel2, left_rgb_w, right_rgb_w, how_bright) ==
    IF pixel2 - pixel1 = 0 THEN Done(px)
    ELSE LET right_pixel == Max(pixel1, pixel2)
             left_pixel  == Min(pixel1, pixel2)
             with_W      == Len(left_rgb_w) = 4 /\ W_in_mode
         IN  IF with_W /\ Len(right_rgb_w) < 4 THEN Raised(px)  \* right_rgb_w[3]
             ELSE GradientLoop(px, 0, left_pixel, right_pixel - left_pixel,
                               left_rgb_w, right_rgb_w, with_W, how_bright)

\* the tuple get_pixel returns for the word balance
Unpack(balance) ==
    LET w == ShiftRightByte(balance, shift[4])
        b == ShiftRightByte(balance, shift[3])
        r == ShiftRightByte(balance, shift[1])
        g == ShiftRightByte(balance, shift[2])
        red   == PyInt(r * 255, brightnessvalue)
        green == PyInt(g * 255, brightnessvalue)
        blue  == PyInt(b * 255, brightnessvalue)
        white == PyInt(w * 255, brightnessvalue)
    IN  IF W_in_mode THEN <<red, green, blue, white>> ELSE <<red, green, blue>>

\* self.pixels[num_of_pixels:] + self.pixels[:num_of_pixels]
Rotated(px, num_of_pixels) == SliceFrom(px, num_of_pixels) \o SliceTo(px, num_of_pixels)

\* a rotate_right that forgets to negate num_of_pixels
RotatedRightUnnegated(px, num_of_pixels) == Rotated(px, num_of_pixels)

\* rotate_right: the same with num_of_pixels negated
RotatedRight(px, num_of_pixels) == Rotated(px, -1 * num_of_pixels)

\* a brightness that clamps from below only
ClampedBelowOnly(v) == IF v < 1 THEN 1 ELSE v

\* the value brightness(v) stores
Clamped(v) ==
    LET b1 == IF v < 1 THEN 1 ELSE v
    IN  IF b1 > 255 THEN 255 ELSE b1

\* a show that hands over the array self.pixels names at the time
HandedPixels == pixels

\* what sm.put receives from show: self.mv, the view made in __init__
Handed == mvbuf

---------------------------------------------------------------------------
(* The calls a client makes. Each is one method of the class, run to its   *)
(* return or to the exception it raises.                                   *)

\* op(a) raised err or returned ret, and handed put to the state machine
Returns(op, a, err, ret, put) ==
    /\ last' = Call(op, a, err, ret, put, pixels)
    /\ prev' = last

\* every call: one of the client's calls is used up, nothing reconfigures
Begin ==
    /\ budget > 0
    /\ budget' = budget - 1
    /\ UNCHANGED cfgvars

\* item assignment into the array self.pixels names: the memoryview sees it
\* when it views that same array
Mutate(px) ==
    /\ pixels' = px
    /\ mvbuf' = IF shared THEN px ELSE mvbuf
    /\ UNCHANGED shared

\* self.pixels = <a new array>: the memoryview keeps viewing the first one
Rebind(px) ==
    /\ pixels' = px
    /\ shared' = FALSE
    /\ UNCHANGED mvbuf

brightness(b) ==
    /\ Begin
    /\ IF IsNone(b)
       THEN /\ Returns("brightness", <<b>>, "none", Some(brightnessvalue), <<>>)
            /\ UNCHANGED brightnessvalue
       ELSE /\ Returns("brightness", <<b>>, "none", None, <<>>)
            /\ brightnessvalue' = Clamped(Val(b))
    /\ UNCHANGED <<pixels, mvbuf, shared>>

set_pixel(pixel_num, rgb_w, how_bright) ==
    /\ Begin
    /\ LET r == SetPixelOn(pixels, pixel_num, rgb_w, how_bright)
       IN  /\ Mutate(r.pixels)
           /\ Returns("set_pixel", <<pixel_num, rgb_w, how_bright>>, r.err, None, <<>>)
    /\ UNCHANGED brightnessvalue

set_pixel_line(pixel1, pixel2, rgb_w, how_bright) ==
    /\ Begin
    /\ LET r == IF pixel2 >= pixel1
                THEN SetPixelOn(pixels, slice_maker(Some(pixel1), Some(pixel2 + 1), None),
                                rgb_w, how_bright)
                ELSE Done(pixels)
       IN  /\ Mutate(r.pixels)
           /\ Returns("set_pixel_line", <<pixel1, pixel2, rgb_w, how_bright>>,
                           r.err, None, <<>>)
    /\ UNCHANGED brightnessvalue

set_pixel_line_gradient(pixel1, pixel2, left_rgb_w, right_rgb_w, how_bright) ==
    /\ Begin
    /\ LET r == GradientOn(pixels, pixel1, pixel2, left_rgb_w, right_rgb_w, how_bright)
       IN  /\ Mutate(r.pixels)
           /\ Returns("set_pixel_line_gradient",
                           <<pixel1, pixel2, left_rgb_w, right_rgb_w, how_bright>>,
                           r.err, None, <<>>)
    /\ UNCHANGED brightnessvalue

fill(rgb_w, how_bright) ==
    /\ Begin
    /\ LET r == SetPixelOn(pixels, slice_maker(None, None, None), rgb_w, how_bright)
       IN  /\ Mutate(r.pixels)
           /\ Returns("fill", <<rgb_w, how_bright>>, r.err, None, <<>>)
    /\ UNCHANGED brightnessvalue

get_pixel(pixel_num) ==
    /\ Begin
    /\ IF ItemOK(pixels, pixel_num + offset)
       THEN Returns("get_pixel", <<pixel_num>>, "none",
                    Some(Unpack(GetItem(pixels, pixel_num + offset))), <<>>)
       ELSE Returns("get_pixel", <<pixel_num>>, "IndexError", None, <<>>)
    /\ UNCHANGED <<brightnessvalue, pixels, mvbuf, shared>>

rotate_left(num_of_pixels) ==
    /\ Begin
    /\ LET n == IF IsNone(num_of_pixels) THEN 1 ELSE Val(num_of_pixels)
       IN  Rebind(Rotated(pixels, n))
    /\ Returns("rotate_left", <<num_of_pixels>>, "none", None, <<>>)
    /\ UNCHANGED brightnessvalue

rotate_right(num_of_pixels) ==
    /\ Begin
    /\ LET n == IF IsNone(num_of_pixels) THEN 1 ELSE Val(num_of_pixels)
       IN  Rebind(RotatedRight(pixels, n))
    /\ Returns("rotate_right", <<num_of_pixels>>, "none", None, <<>>)
    /\ UNCHANGED brightnessvalue

clear ==
    /\ Begin
    /\ Rebind(Zeros(num_leds))
    /\ Returns("clear", <<>>, "none", None, <<>>)
    /\ UNCHANGED brightnessvalue

show ==
    /\ Begin
    /\ Returns("show", <<>>, "none", None, Handed)
    /\ UNCHANGED <<brightnessvalue, pixels, mvbuf, shared>>

---------------------------------------------------------------------------
(* The arguments the client draws its calls from. A client that is wide    *)
(* also passes indexes on either side of the strip.                        *)

Modes == { <<"G", "R", "B">>, <<"G", "R", "B", "W">> }

Red == <<255, 0, 0>>
Amber == <<10, 20, 30, 40>>
Black == <<0, 0, 0>>
White == <<255, 255, 255>>

BrightnessArgs == { None, Some(0), Some(128), Some(999) }

Indexes(wide) == IF wide THEN (-2)..(num_leds + 1) ELSE 0..(num_leds - 1)

\* (pixel_num, rgb_w, how_bright) of set_pixel: every index with one colour,
\* a strided slice, a colour with white under a brightness of its own
SetPixelArgs(wide) ==
    { <<IntIndex(i), Red, None>> : i \in Indexes(wide) }
        \cup { <<slice_maker(Some(1), None, Some(2)), Red, None>>,
               <<IntIndex(0), Amber, Some(64)>> }
        \cup (IF wide
              THEN { <<slice_maker(Some(0), Some(num_leds + 1), None), Red, None>> }
              ELSE {})

\* (pixel1, pixel2, rgb_w, how_bright) of set_pixel_line
LineArgs(wide) ==
    { <<0, num_leds - 1, Amber, None>>, <<1, 0, Red, None>> }
        \cup (IF wide THEN { <<-1, num_leds, Red, None>> } ELSE {})

\* (pixel1, pixel2, left_rgb_w, right_rgb_w, how_bright) of set_pixel_line_gradient
GradientArgs(wide) ==
    { <<0, num_leds - 1, Black, White, None>>,
      <<num_leds - 1, 0, Amber, <<200, 100, 50, 0>>, None>>,
      <<0, num_leds - 1, Amber, White, None>>,
      <<1, 1, Black, White, None>> }
        \cup (IF wide THEN { <<0, num_leds, Black, White, None>> } ELSE {})

\* (rgb_w, how_bright) of fill
FillArgs == { <<Red, None>> }

RotateArgs(wide) ==
    { None, Some(0), Some(num_leds - 1) }
        \cup (IF wide THEN { Some(num_leds), Some(num_leds + 3) } ELSE {})

---------------------------------------------------------------------------
(* Specifications.                                                         *)

Step(wide) ==
    \/ \E b \in BrightnessArgs : brightness(b)
    \/ \E a \in SetPixelArgs(wide) : set_pixel(a[1], a[2], a[3])
    \/ \E a \in LineArgs(wide) : set_pixel_line(a[1], a[2], a[3], a[4])
    \/ \E a \in GradientArgs(wide) : set_pixel_line_gradient(a[1], a[2], a[3], a[4], a[5])
    \/ \E a \in FillArgs : fill(a[1], a[2])
    \/ \E p \in Indexes(wide) : get_pixel(p)
    \/ \E n \in RotateArgs(wide) : rotate_left(n)
    \/ \E n \in RotateArgs(wide) : rotate_right(n)
    \/ clear
    \/ show

Init == \E m \in Modes, n \in {1, MaxLeds} : Construct(m, n, MaxOps)

\* a client that may pass any index
Next == Step(TRUE)
Spec == Init /\ [][Next]_vars

\* a client that passes only indexes of the strip
NextInRange == Step(FALSE)
SpecInRange == Init /\ [][NextInRange]_vars

---------------------------------------------------------------------------
(* A client that sets the brightness, sets one pixel and reads it back,    *)
(* over every brightness and every value of a colour component.            *)

RoundTripColours == { <<c, 255 - c, c, 255 - c>> : c \in 0..255 }

InitRoundTrip == \E m \in Modes : Construct(m, MaxLeds, 3)

NextRoundTrip ==
    \/ /\ last.op = "__init__"
       /\ \E b \in 1..255 : brightness(Some(b))
    \/ /\ last.op = "brightness"
       /\ \E c \in RoundTripColours : set_pixel(IntIndex(num_leds - 1), c, None)
    \/ /\ last.op = "set_pixel"
       /\ get_pixel(last.a[1][2])

SpecRoundTrip == InitRoundTrip /\ [][NextRoundTrip]_vars

(* A client of a one-pixel strip of every channel order: the permutations  *)
(* of RGB and of RGBW.                                                     *)

Orders(letters) ==
    { m \in [1..Cardinality(letters) -> letters] :
        \A j, k \in 1..Cardinality(letters) : j # k => m[j] # m[k] }

AllModes == Orders({"R", "G", "B"}) \cup Orders({"R", "G", "B", "W"})

InitLayout == \E m \in AllModes : Construct(m, 1, MaxOps)

NextLayout ==
    \/ \E c \in {Red, Amber} : set_pixel(IntIndex(0), c, None)
    \/ get_pixel(0)
    \/ show

SpecLayout == InitLayout /\ [][NextLayout]_vars

---------------------------------------------------------------------------
(* Construction with any arguments: __init__ checks neither num_leds nor   *)
(* the mode string. It raises only where an expression of its own raises:  *)
(* mode.index(ch) for a letter the mode lacks (lines 83-89), and, where     *)
(* array.array("I") checks the range of an item, the append of a negative  *)
(* bit_count - 1 (line 103). CPython checks that range and raises           *)
(* OverflowError; MicroPython does not and stores the value modulo 2^32.    *)

\* the exception __init__ raises for num_leds n and mode m, "none" if it
\* returns; checked tells whether the array checks the range of its items
InitError(m, n, checked) ==
    IF ~(StrHas(m, "R") /\ StrHas(m, "G") /\ StrHas(m, "B")) THEN "ValueError"
    ELSE IF checked /\ Bpp(m) * n * 8 - 1 < 0 THEN "OverflowError"
    ELSE "none"

\* Neopixel(n, state_machine, pin, m) raised err: the client has no object
Failed(m, n, err) ==
    /\ mode = None
    /\ W_in_mode = FALSE
    /\ shift = <<>>
    /\ num_leds = 0
    /\ brightnessvalue = 0
    /\ offset = 0
    /\ pixels = <<>>
    /\ mvbuf = <<>>
    /\ shared = FALSE
    /\ last = Call("__init__", <<n, m>>, err, <<>>, <<>>, <<>>)
    /\ prev = NoCall
    /\ budget = 0

\* the client holds an object: __init__ returned
Constructed == offset = 1

\* every shift is one set_pixel and get_pixel can shift a byte by within a word
UsableShifts == \A k \in 1..4 : shift[k] \in {0, 8, 16, 24}

ConfigModes ==
    { <<"G", "R", "B">>, <<"G", "R", "B", "W">>,
      <<"R", "G">>, <<"R", "G", "B", "X">>, <<"R", "G", "B", "B">>,
      <<"R", "R", "G", "B">>, <<"R", "G", "B", "W", "W">> }

ConfigLeds == {-1, 0, 1, MaxLeds}

InitConfig ==
    \E m \in ConfigModes, n \in ConfigLeds, checked \in BOOLEAN :
        IF InitError(m, n, checked) = "none"
        THEN Construct(m, n, MaxOps)
        ELSE Failed(m, n, InitError(m, n, checked))

\* a client that calls methods of the object it got, and set_pixel and
\* get_pixel only where the shifts of the layout are usable
NextConfig ==
    \/ Constructed /\ UsableShifts /\ \E c \in {Red, Amber} : set_pixel(IntIndex(0), c, None)
    \/ Constructed /\ UsableShifts /\ get_pixel(0)
    \/ Constructed /\ brightness(Some(128))
    \/ Constructed /\ clear
    \/ Constructed /\ show

SpecConfig == InitConfig /\ [][NextConfig]_vars

---------------------------------------------------------------------------
(* The claims.                                                             *)

InStrip(i) == i \in 0..(num_leds - 1)

\* the word of pixel i in the array px, where get_pixel(i) reads it
HasPixelWord(px, i) == ItemOK(px, i + offset)
PixelWord(px, i) == GetItem(px, i + offset)

IsWord(w) == Len(w) = 4 /\ \A k \in 1..4 : w[k] \in 0..255

\* C1: the pixel words show() hands to the state machine are the current
\* pixel words 0..num_leds-1, the ones get_pixel reads.
C1_ShowHandsCurrentPixels ==
    last.op = "show" =>
        \A i \in 0..(num_leds - 1) :
            /\ HasPixelWord(pixels, i)
            /\ HasPixelWord(last.put, i)
            /\ PixelWord(last.put, i) = PixelWord(pixels, i)

\* C2: rotate_left(n) moves the former pixel word (i+n) mod num_leds to i,
\* rotate_right(n) the former (i-n) mod num_leds, and both leave the
\* bit-count word first and the reset-delay word last.
C2_RotateShiftsPixelWordsOnly ==
    last.op \in {"rotate_left", "rotate_right"} =>
        LET n   == IF IsNone(last.a[1]) THEN 1 ELSE Val(last.a[1])
            k   == IF last.op = "rotate_left" THEN n ELSE -n
            old == last.before
        IN  /\ Len(pixels) = Len(old)
            /\ pixels[1] = old[1]
            /\ pixels[Len(pixels)] = old[Len(old)]
            /\ \A i \in 0..(num_leds - 1) :
                   /\ HasPixelWord(pixels, i)
                   /\ HasPixelWord(old, (i + k) % num_leds)
                   /\ PixelWord(pixels, i) = PixelWord(old, (i + k) % num_leds)

\* the indexes a pixel_num names, a slice taken as written
Named(pixel_num) ==
    IF pixel_num[1] = "int" THEN {pixel_num[2]}
    ELSE LET start == IF IsNone(pixel_num[2]) THEN 0 ELSE Val(pixel_num[2])
             stop  == IF IsNone(pixel_num[3]) THEN num_leds ELSE Val(pixel_num[3])
             step  == IF IsNone(pixel_num[4]) THEN 1 ELSE Val(pixel_num[4])
         IN  { i \in start..(stop - 1) : (i - start) % step = 0 }

\* C3: set_pixel with an index outside the strip, or a range that names
\* one, raises IndexError and changes no word of the buffer.
C3_OutOfRangeSetPixelRaises ==
    (last.op = "set_pixel" /\ \E i \in Named(last.a[1]) : ~InStrip(i)) =>
        /\ last.err = "IndexError"
        /\ pixels = last.before

\* C4: after clear() every pixel word 0..num_leds-1 exists and is zero, and
\* a get_pixel or set_pixel of such a pixel that follows it succeeds.
C4_ClearLeavesZeroPixelWords ==
    /\ last.op = "clear" =>
           \A i \in 0..(num_leds - 1) :
               HasPixelWord(pixels, i) /\ PixelWord(pixels, i) = Word(0)
    /\ (prev.op = "clear" /\ last.op = "get_pixel" /\ InStrip(last.a[1])) =>
           last.err = "none"
    /\ (prev.op = "clear" /\ last.op = "set_pixel" /\ \A i \in Named(last.a[1]) : InStrip(i)) =>
           last.err = "none"

WithinOne(got, c) ==
    \A k \in 1..Min(Len(got), Len(c)) : got[k] - c[k] \in (-1)..1

\* get_pixel(i) right after a set_pixel(i, c) at the stored brightness
ReadBack ==
    /\ last.op = "get_pixel"
    /\ prev.op = "set_pixel"
    /\ prev.err = "none"
    /\ prev.a[1][1] = "int"
    /\ prev.a[1][2] = last.a[1]
    /\ InStrip(last.a[1])
    /\ IsNone(prev.a[3])

LeftThenRight ==
    /\ last.op = "rotate_right"
    /\ prev.op = "rotate_left"
    /\ last.a = prev.a
    /\ ~IsNone(last.a[1])
    /\ InStrip(Val(last.a[1]))

\* C7: rotate_left(n) followed by rotate_right(n), 0 <= n < num_leds,
\* leaves the pixel words as they were before the two calls.
C7_RotateLeftThenRightRestores ==
    LeftThenRight => pixels = prev.before

\* C7's case: a rotation by n > 0 and back of an array that holds a colour
C7_RotatedAndBack ==
    /\ LeftThenRight
    /\ Val(last.a[1]) > 0
    /\ pixels # last.before
    /\ \E i \in 0..(num_leds - 1) : PixelWord(pixels, i) # Word(0)

\* C8: the stored brightness is in 1..255: 255 after construction, and after
\* brightness(v) it is 1 for v < 1, 255 for v > 255 and v otherwise, and no
\* error is raised.
C8_BrightnessClamped ==
    /\ brightnessvalue \in 1..255
    /\ last.op = "__init__" => brightnessvalue = 255
    /\ (last.op = "brightness" /\ ~IsNone(last.a[1])) =>
           LET v == Val(last.a[1])
           IN  /\ last.err = "none"
               /\ brightnessvalue = (IF v < 1 THEN 1 ELSE IF v > 255 THEN 255 ELSE v)

\* C8's case: brightness(0) stored 1 and then brightness(999) stored 255
C8_ClampedBothWays ==
    /\ prev.op = "brightness"
    /\ prev.a = <<Some(0)>>
    /\ last.op = "brightness"
    /\ last.a = <<Some(999)>>
    /\ brightnessvalue = 255

\* the 0-based position of a letter in a mode, and its place in self.shift
Position(m, ch) == CHOOSE k \in 0..(Len(m) - 1) : m[k + 1] = ch
Slot(ch) == CASE ch = "R" -> 1 [] ch = "G" -> 2 [] ch = "B" -> 3 [] ch = "W" -> 4
Letters(m) == { m[k] : k \in 1..Len(m) }

\* C9: for a mode that is a permutation of RGB or of RGBW, the shift of the
\* channel at position idx is (bytesPerPixel - 1 - idx) * 8, the shifts of
\* the used channels are distinct multiples of 8, and bytesPerPixel, which
\* sizes the bit count, is 4 exactly when W is in the mode and 3 otherwise.
C9_ShiftsFollowPosition ==
    LET bpp == IF "W" \in Letters(mode) THEN 4 ELSE 3
    IN  /\ mvbuf[1] = Word(num_leds * bpp * 8 - 1)
        /\ \A ch \in Letters(mode) :
               /\ shift[Slot(ch)] = (bpp - 1 - Position(mode, ch)) * 8
               /\ shift[Slot(ch)] % 8 = 0
        /\ \A c1, c2 \in Letters(mode) : c1 # c2 => shift[Slot(c1)] # shift[Slot(c2)]

\* C9's case: mode "WRGB", and a red pixel packed with its shifts
C9_WhiteFirst ==
    /\ mode = <<"W", "R", "G", "B">>
    /\ shift = <<16, 8, 0, 24>>
    /\ last.op = "set_pixel"
    /\ last.a[2] = Red
    /\ PixelWord(pixels, 0) = <<0, 0, 255, 0>>

\* C10: set_pixel_line_gradient(pixel1, pixel2, left, right) with both
\* indexes in the strip sets the pixel at offset i from min(pixel1, pixel2)
\* to the colour with channels round(left + (right - left) * i / span),
\* span = |pixel2 - pixel1|, leaves the pixels outside the span alone,
\* changes nothing when pixel1 = pixel2, and interpolates W only when both
\* colours have four components and the mode has W (else W is left out).
C10_GradientInterpolates ==
    (last.op = "set_pixel_line_gradient" /\ InStrip(last.a[1]) /\ InStrip(last.a[2])) =>
        LET lo    == Min(last.a[1], last.a[2])
            hi    == Max(last.a[1], last.a[2])
            left  == last.a[3]
            right == last.a[4]
            span  == hi - lo
            withW == Len(left) = 4 /\ Len(right) = 4 /\ W_in_mode
            mix(k, i) == PyRound((right[k] - left[k]) * i + left[k] * span, span)
            colour(i) == IF withW THEN <<mix(1, i), mix(2, i), mix(3, i), mix(4, i)>>
                         ELSE <<mix(1, i), mix(2, i), mix(3, i)>>
        IN  IF span = 0 THEN pixels = last.before
            ELSE /\ last.err = "none"
                 /\ Len(pixels) = Len(last.before)
                 /\ \A j \in 0..(num_leds - 1) :
                        /\ HasPixelWord(pixels, j)
                        /\ PixelWord(pixels, j) =
                               IF lo <= j /\ j <= hi
                               THEN PixValue(colour(j - lo), last.a[5])
                               ELSE PixelWord(last.before, j)

\* the configurations C11 names: num_leds <= 0, or a mode of a wrong length,
\* with a letter twice, or with a letter outside R, G, B, W
BadConfig(n, m) ==
    \/ n <= 0
    \/ Len(m) \notin {3, 4}
    \/ \E j, k \in 1..Len(m) : j # k /\ m[j] = m[k]
    \/ \E k \in 1..Len(m) : m[k] \notin {"R", "G", "B", "W"}

\* C11: construction with num_leds <= 0, or with a mode string of a wrong
\* length, with a duplicate letter or with a letter outside R, G, B, W,
\* raises an error and leaves no buffer, and no later call runs on an
\* object with such a configuration.
C11_BadConfigurationFails ==
    /\ (last.op = "__init__" /\ BadConfig(last.a[1], last.a[2])) =>
           (last.err # "none" /\ ~Constructed /\ pixels = <<>>)
    /\ (Constructed /\ last.op # "__init__") => ~BadConfig(num_leds, mode)

====
